---- MODULE Spec2Model ----
(***************************************************************************)
(* Model of services/v1/s3/upload.py: stream_upload_to_s3 streams the body *)
(* of an HTTP GET into an S3-compatible store as a multipart upload.       *)
(*                                                                         *)
(* One transfer is modelled.  Every call the function makes to an external *)
(* collaborator (the store client, the HTTP client) is one action per      *)
(* outcome: the call returns, or the call raises.  Sizes are counted in    *)
(* model units, MiB units to the mebibyte.                                 *)
(***************************************************************************)
EXTENDS Integers, Sequences, FiniteSets, TLC

\* ------------------------------------------------------------------ bounds
\* model units per mebibyte (1048576 in the program)
MiB == 2

\* number of distinct source contents tried for each source length
NumSeeds == 2

\* ------------------------------------------------------- program constants
\* upload.py:74   chunk_size = 5 * 1024 * 1024   (the part-size threshold)
chunk_size == 5 * MiB

\* upload.py:79   response.iter_content(chunk_size=1024 * 1024)
iter_chunk_size == 1 * MiB

\* upload.py:121  ExpiresIn=3600
ExpiresIn == 3600

\* longest source body tried: three full parts and one unit more
MaxSourceLen == 3 * chunk_size + 1

\* a byte is a value in 0..255
ByteRange == 256

\* ----------------------------------------------------- external behaviours
\* integrity tags the store may hand back for a part (opaque to the client)
ETags == {"etag-a", "etag-b"}

\* session identifiers the store may issue
UploadIds == {"upload-1", "upload-2"}

\* exceptions a store call may raise
StoreExceptions == {"ClientError", "BotoCoreError"}

\* exceptions requests.get / iter_content may raise
TransportExceptions == {"ConnectionError"}

\* exception raise_for_status raises on a non-2xx response
HTTPError == "HTTPError"

\* exceptions generate_presigned_url may raise (no network call is made)
PresignExceptions == {"BotoCoreError"}

\* what a cancellation raises inside a blocking call: a BaseException that
\* is not an Exception
Interruptions == {"KeyboardInterrupt"}

\* the blocking calls made once the session is open: the HTTP request, the
\* body read and the store calls
SuspensionPoints ==
    {"requests_get", "iter_content", "upload_part", "final_upload_part",
     "complete_multipart_upload"}

NoValue == "None"

VARIABLES
    pc,            \* position of control inside stream_upload_to_s3
    make_public,   \* argument of the call
    file_url,      \* argument of the call: the source URL, as urlparse splits it
    custom_filename, \* argument of the call: a name, or None
    bucket_name,   \* S3_BUCKET_NAME of the environment
    endpoint_url,  \* S3_ENDPOINT_URL of the environment
    filename,      \* local filename: the object key
    source,        \* the bytes the remote server will send (the HTTP body)
    pos,           \* number of source bytes yielded by iter_content so far
    upload_id,     \* local upload_id
    parts,         \* local parts
    part_number,   \* local part_number
    buffer,        \* local buffer
    calls,         \* every call made on s3_client, in order, with its outcome
    session,       \* state of the multipart session on the store
    outcome,       \* what the caller of stream_upload_to_s3 gets
    connection,    \* the HTTP connection behind `response`
    failure        \* history: which step raised, at which part number, and what

vars == <<pc, make_public, file_url, custom_filename, bucket_name,
          endpoint_url, filename, source, pos, upload_id, parts, part_number,
          buffer, calls, session, outcome, connection, failure>>

\* ------------------------------------------------------------------ helpers
Min(a, b) == IF a <= b THEN a ELSE b

\* the n bytes of the source body generated from seed s
SourceBytes(n, s) == [i \in 1..n |-> (s + i) % ByteRange]

Sources == {SourceBytes(n, s) : n \in 0..MaxSourceLen, s \in 0..(NumSeeds - 1)}

\* ------------------------------------------------------------------ strings
\* A string is a sequence of characters.  The characters that a URL has to
\* escape, among those the model uses, and their escapes:
NeedsQuoting == {" ", "%"}

PercentCode(c) ==
    CASE c = " " -> <<"%", "2", "0">>
      [] c = "%" -> <<"%", "2", "5">>
      [] c = "/" -> <<"%", "2", "F">>

Escapable == {" ", "%", "/"}

\* slip: the key is put into the URL as it is
quote_nothing(str) == str

\* upload.py:115  urllib.parse.quote(filename): every character but the
\* unreserved ones and "/" is replaced by its escape
RECURSIVE quote(_)
quote(str) ==
    IF str = <<>> THEN <<>>
    ELSE (IF Head(str) \in NeedsQuoting THEN PercentCode(Head(str))
                                       ELSE <<Head(str)>>)
         \o quote(Tail(str))

\* upload.py:46  urllib.parse.unquote(path): every escape is replaced by its
\* character, anything else is kept
RECURSIVE unquote(_)
unquote(str) ==
    IF str = <<>> THEN <<>>
    ELSE IF /\ Len(str) >= 3
            /\ \E c \in Escapable : SubSeq(str, 1, 3) = PercentCode(c)
         THEN <<CHOOSE c \in Escapable : SubSeq(str, 1, 3) = PercentCode(c)>>
              \o unquote(SubSeq(str, 4, Len(str)))
         ELSE <<Head(str)>> \o unquote(Tail(str))

\* upload.py:46  os.path.basename(p): what follows the last "/"
RECURSIVE basename(_)
basename(str) ==
    IF str = <<>> THEN <<>>
    ELSE IF str[Len(str)] = "/" THEN <<>>
    ELSE Append(basename(SubSeq(str, 1, Len(str) - 1)), str[Len(str)])

\* upload.py:47  the values uuid.uuid4() may give, as one-token strings
UUIDs == {<<"uuid-1">>, <<"uuid-2">>}

\* upload.py:49  custom_filename=None, or a name
None == [given |-> FALSE, name |-> <<>>]

Some(name) == [given |-> TRUE, name |-> name]

\* Python truth value of an optional string: None and "" are false
truthy(opt) == opt.given /\ opt.name # <<>>

\* slip: the escapes of the URL path are left in the name
get_filename_from_url_undecoded(url) ==
    LET name == basename(url.path)
    IN  IF name # <<>> THEN {name} ELSE UUIDs

\* upload.py:43-47  get_filename_from_url: the names it may return
get_filename_from_url(url) ==
    LET path == url.path
        name == basename(unquote(path))
    IN  IF name # <<>> THEN {name} ELSE UUIDs

\* upload.py:59  filename = custom_filename or get_filename_from_url(file_url)
filenames(custom, url) ==
    IF truthy(custom) THEN {custom.name} ELSE get_filename_from_url(url)

\* a source URL as urlparse splits it
Url(path) == [scheme |-> "https", netloc |-> "host", path |-> path]

\* https://host/path/My File.csv
UrlWithSpace == Url(<<"/", "p", "/", "M", " ", "F", ".", "c">>)

\* https://host/p/My%20F
UrlWithEscape == Url(<<"/", "p", "/", "M", "%", "2", "0", "F">>)

\* https://host
UrlWithoutPath == Url(<<>>)

\* https://host/p/
UrlWithTrailingSlash == Url(<<"/", "p", "/">>)

\* https://host/a%2Fb
UrlWithEscapedSlash == Url(<<"/", "a", "%", "2", "F", "b">>)

\* https://host/p/x
UrlPlain == Url(<<"/", "p", "/", "x">>)

\* the (file_url, custom_filename) pairs of the transfers of Spec
TransferRequests ==
    {[file_url |-> UrlWithSpace, custom_filename |-> None],
     [file_url |-> UrlPlain, custom_filename |-> Some(<<"c", " ", "n">>)]}

\* the (file_url, custom_filename) pairs of the transfers of SpecNames
NamingRequests ==
    {[file_url |-> u, custom_filename |-> None] :
        u \in {UrlWithSpace, UrlWithEscape, UrlWithoutPath,
               UrlWithTrailingSlash, UrlWithEscapedSlash, UrlPlain}}
    \cup
    {[file_url |-> UrlPlain, custom_filename |-> Some(n)] :
        n \in {<<"c", " ", "n">>, <<"d", "/", "5", "%", ".", "c">>, <<>>}}

\* the source bodies of SpecNames: empty, one part and a rest, two parts
NamingSources ==
    {SourceBytes(n, 0) : n \in {0, chunk_size + 1, 2 * chunk_size}}

\* S3_BUCKET_NAME and S3_ENDPOINT_URL of the environment
Buckets == {<<"bucket">>}

Endpoints == {<<"http://minio:9000">>}

\* upload.py:60  acl = 'public-read' if make_public else 'private'
acl(public) == IF public THEN "public-read" ELSE "private"

\* upload.py:115-116  f"{endpoint_url}/{bucket_name}/{encoded_filename}"
public_url(endpoint, bucket, key) ==
    endpoint \o <<"/">> \o bucket \o <<"/">> \o quote(key)

\* upload.py:118-122  the URLs generate_presigned_url may return for
\* get_object on (bucket, key): they differ in the signature
presigned_urls(bucket, key, expires) ==
    {[Bucket |-> bucket, Key |-> key, Expires |-> expires, Signature |-> sig] :
        sig \in {"sig-1", "sig-2"}}

\* one entry of the store client's call log
Call(op, pn, body, manifest, ok, etag) ==
    [op |-> op, Bucket |-> bucket_name, Key |-> filename,
     UploadId |-> upload_id, PartNumber |-> pn, Body |-> body,
     Parts |-> manifest, ACL |-> NoValue, ExpiresIn |-> 0,
     ok |-> ok, ETag |-> etag, Url |-> NoValue]

NoFailure == [stage |-> "none", sequence |-> 0, cause |-> NoValue]

\* slip: the handler raises an error of its own instead of the one it caught
except_Exception_masked(e) == [kind |-> "raise", exception |-> "UploadError"]

\* upload.py:131-133  except Exception as e: logger.error(...); raise
\* the exception reaches the caller as it was raised, nothing is added to it
except_Exception(e) == [kind |-> "raise", exception |-> e]

\* slip: the name the caller asked for is echoed, not the key that was used
return_value_custom_name(url) ==
    [kind |-> "return",
     result |-> [file_url |-> url, filename |-> custom_filename.name,
                 bucket |-> bucket_name, public |-> make_public]]

\* upload.py:124-129  the dict returned on success
return_value(url) ==
    [kind |-> "return",
     result |-> [file_url |-> url, filename |-> filename,
                 bucket |-> bucket_name, public |-> make_public]]

\* slip: > is written for >=
part_is_full_strict(buf) == Len(buf) > chunk_size

\* slip: the part is cut one unit early
part_is_full_early(buf) == Len(buf) >= chunk_size - 1

\* upload.py:82   if len(buffer) >= chunk_size
part_is_full(buf) == Len(buf) >= chunk_size

\* slip: the bytes left in the buffer after the loop are never uploaded
has_final_part_never(buf) == FALSE

\* slip: the final part is uploaded whether or not bytes remain
has_final_part_always(buf) == TRUE

\* upload.py:95   if buffer
has_final_part(buf) == Len(buf) > 0

\* ---------------------------------------------------------------- initially
InitLocals ==
    /\ pc = "start"
    /\ make_public \in BOOLEAN
    /\ bucket_name \in Buckets
    /\ endpoint_url \in Endpoints
    /\ filename = <<>>
    /\ pos = 0
    /\ upload_id = NoValue
    /\ parts = <<>>
    /\ part_number = 0
    /\ buffer = <<>>
    /\ calls = <<>>
    /\ session = "Unopened"
    /\ outcome = [kind |-> "running"]
    /\ connection = "none"
    /\ failure = NoFailure

Init ==
    /\ \E r \in TransferRequests :
        /\ file_url = r.file_url
        /\ custom_filename = r.custom_filename
    /\ source \in Sources
    /\ InitLocals

\* the transfers used for the claims about names and URLs
InitNames ==
    /\ \E r \in NamingRequests :
        /\ file_url = r.file_url
        /\ custom_filename = r.custom_filename
    /\ source \in NamingSources
    /\ InitLocals

\* ------------------------------------------------------------------ actions
\* upload.py:55-62  the bucket and the endpoint are read and the key is chosen
Setup ==
    /\ pc = "start"
    /\ filename' \in filenames(custom_filename, file_url)
    /\ pc' = "create_multipart_upload"
    /\ UNCHANGED <<make_public, file_url, custom_filename, bucket_name,
                   endpoint_url, connection, source, pos, upload_id, parts,
                   part_number, buffer, calls, session, outcome, failure>>

\* upload.py:64-69  create_multipart_upload returns an UploadId (kept in the
\* UploadId field of the log entry)
CreateMultipartUpload ==
    /\ pc = "create_multipart_upload"
    /\ \E id \in UploadIds :
        /\ upload_id' = id
        /\ calls' = Append(calls,
              [Call("create_multipart_upload", 0, <<>>, <<>>, TRUE, NoValue)
                 EXCEPT !.UploadId = id, !.ACL = acl(make_public)])
    /\ session' = "Open"
    /\ pc' = "requests_get"
    /\ UNCHANGED <<make_public, file_url, custom_filename, bucket_name,
                   endpoint_url, filename, connection, source, pos, parts, part_number, buffer, outcome, failure>>

\* upload.py:64-68, 131-133  create_multipart_upload raises
CreateMultipartUploadRaises ==
    /\ pc = "create_multipart_upload"
    /\ \E e \in StoreExceptions :
        /\ outcome' = except_Exception(e)
        /\ calls' = Append(calls,
              [Call("create_multipart_upload", 0, <<>>, <<>>, FALSE, NoValue)
                 EXCEPT !.ACL = acl(make_public)])
        /\ failure' = [stage |-> "session-open", sequence |-> 0, cause |-> e]
    /\ pc' = "raised"
    /\ UNCHANGED <<make_public, file_url, custom_filename, bucket_name,
                   endpoint_url, filename, connection, source, pos, upload_id, parts, part_number, buffer, session>>

\* upload.py:71  requests.get(file_url, stream=True) returns a response; the
\* body is still unread, so the connection stays checked out
RequestsGet ==
    /\ pc = "requests_get"
    /\ pc' = "raise_for_status"
    /\ connection' = "open"
    /\ UNCHANGED <<make_public, file_url, custom_filename, bucket_name,
                   endpoint_url, filename, source, pos, upload_id, parts, part_number,
                   buffer, calls, session, outcome, failure>>

\* upload.py:71, 131-133  requests.get raises (DNS, connect, timeout)
RequestsGetRaises ==
    /\ pc = "requests_get"
    /\ \E e \in TransportExceptions :
        /\ outcome' = except_Exception(e)
        /\ failure' = [stage |-> "source-transport", sequence |-> 0, cause |-> e]
    /\ pc' = "raised"
    /\ UNCHANGED <<make_public, file_url, custom_filename, bucket_name,
                   endpoint_url, filename, connection, source, pos, upload_id, parts, part_number,
                   buffer, calls, session>>

\* upload.py:72-77  raise_for_status passes (2xx); the locals are set up
RaiseForStatus ==
    /\ pc = "raise_for_status"
    /\ parts' = <<>>
    /\ part_number' = 1
    /\ buffer' = <<>>
    /\ pc' = "iter_content"
    /\ UNCHANGED <<make_public, file_url, custom_filename, bucket_name,
                   endpoint_url, filename, connection, source, pos, upload_id, calls, session,
                   outcome, failure>>

\* upload.py:72, 131-133  raise_for_status raises on a non-2xx status
RaiseForStatusRaises ==
    /\ pc = "raise_for_status"
    /\ outcome' = except_Exception(HTTPError)
    /\ failure' = [stage |-> "source-fetch", sequence |-> 0, cause |-> HTTPError]
    /\ pc' = "raised"
    /\ UNCHANGED <<make_public, file_url, custom_filename, bucket_name,
                   endpoint_url, filename, connection, source, pos, upload_id, parts, part_number,
                   buffer, calls, session>>

\* slip: the body is iterated without a chunk size, a chunk may be all the
\* rest of the body
IterContentChunk_unbounded ==
    /\ pc = "iter_content"
    /\ pos < Len(source)
    /\ \E n \in 1..(Len(source) - pos) :
        LET chunk == SubSeq(source, pos + 1, pos + n)
            extended == buffer \o chunk
        IN  /\ buffer' = extended
            /\ pos' = pos + n
            /\ pc' = IF part_is_full(extended) THEN "upload_part" ELSE "iter_content"
    /\ UNCHANGED <<make_public, file_url, custom_filename, bucket_name,
                   endpoint_url, filename, connection, source, upload_id, parts, part_number, calls,
                   session, outcome, failure>>

\* upload.py:79-82  iter_content yields the next chunk of 1..iter_chunk_size
\* bytes; it is appended to the buffer and the buffer length is tested
IterContentChunk ==
    /\ pc = "iter_content"
    /\ pos < Len(source)
    /\ \E n \in 1..Min(iter_chunk_size, Len(source) - pos) :
        LET chunk == SubSeq(source, pos + 1, pos + n)
            extended == buffer \o chunk
        IN  /\ buffer' = extended
            /\ pos' = pos + n
            /\ pc' = IF part_is_full(extended) THEN "upload_part" ELSE "iter_content"
    /\ UNCHANGED <<make_public, file_url, custom_filename, bucket_name,
                   endpoint_url, filename, connection, source, upload_id, parts, part_number, calls,
                   session, outcome, failure>>

\* upload.py:79, 95  iter_content is exhausted, which releases the
\* connection; the rest of the buffer, if any, is the final part
IterContentExhausted ==
    /\ pc = "iter_content"
    /\ pos = Len(source)
    /\ pc' = IF has_final_part(buffer) THEN "final_upload_part"
                                       ELSE "complete_multipart_upload"
    /\ connection' = "closed"
    /\ UNCHANGED <<make_public, file_url, custom_filename, bucket_name,
                   endpoint_url, filename, source, pos, upload_id, parts, part_number,
                   buffer, calls, session, outcome, failure>>

\* upload.py:79, 131-133  the connection breaks while the body is streamed
\* (the HTTP client closes a broken connection itself)
IterContentRaises ==
    /\ pc = "iter_content"
    /\ \E e \in TransportExceptions :
        /\ outcome' = except_Exception(e)
        /\ failure' = [stage |-> "source-transport", sequence |-> 0, cause |-> e]
    /\ pc' = "raised"
    /\ connection' = "closed"
    /\ UNCHANGED <<make_public, file_url, custom_filename, bucket_name,
                   endpoint_url, filename, source, pos, upload_id, parts, part_number,
                   buffer, calls, session>>

\* slip: line 93 is missing, the buffer is not emptied after the upload
UploadPart_keeps_buffer ==
    /\ pc = "upload_part"
    /\ \E tag \in ETags :
        /\ calls' = Append(calls, Call("upload_part", part_number, buffer, <<>>, TRUE, tag))
        /\ parts' = Append(parts, [PartNumber |-> part_number, ETag |-> tag])
    /\ part_number' = part_number + 1
    /\ pc' = "iter_content"
    /\ UNCHANGED <<make_public, file_url, custom_filename, bucket_name,
                   endpoint_url, filename, connection, source, pos, upload_id, buffer, session, outcome, failure>>

\* slip: line 92 is missing, part_number is not advanced
UploadPart_same_number ==
    /\ pc = "upload_part"
    /\ \E tag \in ETags :
        /\ calls' = Append(calls, Call("upload_part", part_number, buffer, <<>>, TRUE, tag))
        /\ parts' = Append(parts, [PartNumber |-> part_number, ETag |-> tag])
    /\ buffer' = <<>>
    /\ pc' = "iter_content"
    /\ UNCHANGED <<make_public, file_url, custom_filename, bucket_name,
                   endpoint_url, filename, connection, source, pos, upload_id, part_number, session, outcome, failure>>

\* upload.py:84-93  upload_part returns an ETag for a full buffer
UploadPart ==
    /\ pc = "upload_part"
    /\ \E tag \in ETags :
        /\ calls' = Append(calls, Call("upload_part", part_number, buffer, <<>>, TRUE, tag))
        /\ parts' = Append(parts, [PartNumber |-> part_number, ETag |-> tag])
    /\ part_number' = part_number + 1
    /\ buffer' = <<>>
    /\ pc' = "iter_content"
    /\ UNCHANGED <<make_public, file_url, custom_filename, bucket_name,
                   endpoint_url, filename, connection, source, pos, upload_id, session, outcome, failure>>

\* upload.py:84-90, 131-133  upload_part raises for a full buffer
UploadPartRaises ==
    /\ pc = "upload_part"
    /\ \E e \in StoreExceptions :
        /\ outcome' = except_Exception(e)
        /\ calls' = Append(calls, Call("upload_part", part_number, buffer, <<>>, FALSE, NoValue))
        /\ failure' = [stage |-> "part-upload", sequence |-> part_number, cause |-> e]
    /\ pc' = "raised"
    /\ UNCHANGED <<make_public, file_url, custom_filename, bucket_name,
                   endpoint_url, filename, connection, source, pos, upload_id, parts, part_number,
                   buffer, session>>

\* slip: line 104 is missing, the final part is not put on the parts list
FinalUploadPart_not_recorded ==
    /\ pc = "final_upload_part"
    /\ \E tag \in ETags :
        /\ calls' = Append(calls, Call("upload_part", part_number, buffer, <<>>, TRUE, tag))
        /\ parts' = parts
    /\ pc' = "complete_multipart_upload"
    /\ UNCHANGED <<make_public, file_url, custom_filename, bucket_name,
                   endpoint_url, filename, connection, source, pos, upload_id, part_number, buffer,
                   session, outcome, failure>>

\* upload.py:97-104  upload_part returns an ETag for the final part
FinalUploadPart ==
    /\ pc = "final_upload_part"
    /\ \E tag \in ETags :
        /\ calls' = Append(calls, Call("upload_part", part_number, buffer, <<>>, TRUE, tag))
        /\ parts' = Append(parts, [PartNumber |-> part_number, ETag |-> tag])
    /\ pc' = "complete_multipart_upload"
    /\ UNCHANGED <<make_public, file_url, custom_filename, bucket_name,
                   endpoint_url, filename, connection, source, pos, upload_id, part_number, buffer,
                   session, outcome, failure>>

\* upload.py:97-103, 131-133  upload_part raises for the final part
FinalUploadPartRaises ==
    /\ pc = "final_upload_part"
    /\ \E e \in StoreExceptions :
        /\ outcome' = except_Exception(e)
        /\ calls' = Append(calls, Call("upload_part", part_number, buffer, <<>>, FALSE, NoValue))
        /\ failure' = [stage |-> "part-upload", sequence |-> part_number, cause |-> e]
    /\ pc' = "raised"
    /\ UNCHANGED <<make_public, file_url, custom_filename, bucket_name,
                   endpoint_url, filename, connection, source, pos, upload_id, parts, part_number,
                   buffer, session>>

\* upload.py:107-112  complete_multipart_upload seals the object
CompleteMultipartUpload ==
    /\ pc = "complete_multipart_upload"
    /\ calls' = Append(calls, Call("complete_multipart_upload", 0, <<>>, parts, TRUE, NoValue))
    /\ session' = "Completed"
    /\ pc' = "url"
    /\ UNCHANGED <<make_public, file_url, custom_filename, bucket_name,
                   endpoint_url, filename, connection, source, pos, upload_id, parts, part_number,
                   buffer, outcome, failure>>

\* slip: the failure of complete_multipart_upload is swallowed and the
\* function goes on to derive the URL
CompleteMultipartUploadRaises_swallowed ==
    /\ pc = "complete_multipart_upload"
    /\ calls' = Append(calls, Call("complete_multipart_upload", 0, <<>>, parts, FALSE, NoValue))
    /\ failure' = [stage |-> "session-complete", sequence |-> 0, cause |-> NoValue]
    /\ pc' = "url"
    /\ UNCHANGED <<make_public, file_url, custom_filename, bucket_name,
                   endpoint_url, filename, connection, source, pos, upload_id, parts, part_number,
                   buffer, session, outcome>>

\* upload.py:107-112, 131-133  complete_multipart_upload raises
CompleteMultipartUploadRaises ==
    /\ pc = "complete_multipart_upload"
    /\ \E e \in StoreExceptions :
        /\ outcome' = except_Exception(e)
        /\ calls' = Append(calls, Call("complete_multipart_upload", 0, <<>>, parts, FALSE, NoValue))
        /\ failure' = [stage |-> "session-complete", sequence |-> 0, cause |-> e]
    /\ pc' = "raised"
    /\ UNCHANGED <<make_public, file_url, custom_filename, bucket_name,
                   endpoint_url, filename, connection, source, pos, upload_id, parts, part_number,
                   buffer, session>>

\* upload.py:114-116, 124-129  public: the URL is built locally and returned
PublicUrl ==
    /\ pc = "url"
    /\ make_public
    /\ outcome' = return_value(public_url(endpoint_url, bucket_name, filename))
    /\ pc' = "returned"
    /\ UNCHANGED <<make_public, file_url, custom_filename, bucket_name,
                   endpoint_url, filename, connection, source, pos, upload_id, parts, part_number,
                   buffer, calls, session, failure>>

\* upload.py:117-129  private: generate_presigned_url returns the URL
GeneratePresignedUrl ==
    /\ pc = "url"
    /\ ~make_public
    /\ \E url \in presigned_urls(bucket_name, filename, ExpiresIn) :
        /\ calls' = Append(calls,
              [Call("generate_presigned_url", 0, <<>>, <<>>, TRUE, NoValue)
                 EXCEPT !.ExpiresIn = ExpiresIn, !.Url = url])
        /\ outcome' = return_value(url)
    /\ pc' = "returned"
    /\ UNCHANGED <<make_public, file_url, custom_filename, bucket_name,
                   endpoint_url, filename, connection, source, pos, upload_id, parts, part_number,
                   buffer, session, failure>>

\* upload.py:118-122, 131-133  private: generate_presigned_url raises
GeneratePresignedUrlRaises ==
    /\ pc = "url"
    /\ ~make_public
    /\ \E e \in PresignExceptions :
        /\ outcome' = except_Exception(e)
        /\ calls' = Append(calls,
              [Call("generate_presigned_url", 0, <<>>, <<>>, FALSE, NoValue)
                 EXCEPT !.ExpiresIn = ExpiresIn])
        /\ failure' = [stage |-> "url-derivation", sequence |-> 0, cause |-> e]
    /\ pc' = "raised"
    /\ UNCHANGED <<make_public, file_url, custom_filename, bucket_name,
                   endpoint_url, filename, connection, source, pos, upload_id, parts, part_number,
                   buffer, session>>

\* upload.py:54, 131  the caller's cancellation is delivered inside a
\* blocking call; `except Exception` does not catch it and it leaves the
\* function as it is
Interrupted ==
    /\ pc \in SuspensionPoints
    /\ \E e \in Interruptions :
        /\ outcome' = [kind |-> "raise", exception |-> e]
        /\ failure' = [stage |-> "cancelled", sequence |-> 0, cause |-> e]
    /\ pc' = "raised"
    /\ connection' = IF pc = "iter_content" THEN "closed" ELSE connection
    /\ UNCHANGED <<make_public, file_url, custom_filename, bucket_name,
                   endpoint_url, filename, source, pos, upload_id, parts, part_number,
                   buffer, calls, session>>

Next ==
    \/ Setup
    \/ CreateMultipartUpload
    \/ CreateMultipartUploadRaises
    \/ RequestsGet
    \/ RequestsGetRaises
    \/ RaiseForStatus
    \/ RaiseForStatusRaises
    \/ IterContentChunk
    \/ IterContentExhausted
    \/ IterContentRaises
    \/ UploadPart
    \/ UploadPartRaises
    \/ FinalUploadPart
    \/ FinalUploadPartRaises
    \/ CompleteMultipartUpload
    \/ CompleteMultipartUploadRaises
    \/ PublicUrl
    \/ GeneratePresignedUrl
    \/ GeneratePresignedUrlRaises
    \/ Interrupted

Spec == Init /\ [][Next]_vars

SpecNames == InitNames /\ [][Next]_vars

\* --------------------------------------------------------------- properties
RECURSIVE CountOp(_, _)
\* number of calls of operation op in the log cs
CountOp(cs, op) ==
    IF cs = <<>> THEN 0
    ELSE (IF Head(cs).op = op THEN 1 ELSE 0) + CountOp(Tail(cs), op)

\* the upload_part calls made so far, in call order
PartCalls == SelectSeq(calls, LAMBDA c : c.op = "upload_part")

\* the upload_part calls that returned
SucceededPartCalls == SelectSeq(PartCalls, LAMBDA c : c.ok)

RECURSIVE ConcatBodies(_)
ConcatBodies(cs) ==
    IF cs = <<>> THEN <<>> ELSE Head(cs).Body \o ConcatBodies(Tail(cs))

RECURSIVE MaxPartNumber(_)
MaxPartNumber(cs) ==
    IF cs = <<>> THEN 0
    ELSE LET m == MaxPartNumber(Tail(cs))
         IN  IF Head(cs).PartNumber > m THEN Head(cs).PartNumber ELSE m

RECURSIVE BodiesUpTo(_)
\* the bodies of the upload_part calls with part number 1..n, by part number
BodiesUpTo(n) ==
    IF n = 0 THEN <<>>
    ELSE BodiesUpTo(n - 1)
            \o ConcatBodies(SelectSeq(PartCalls, LAMBDA c : c.PartNumber = n))

Terminated == pc \in {"returned", "raised"}

\* C1: when the Complete call is reached, the bodies of all upload-part
\* calls, concatenated in part-number order, are exactly the bytes read from
\* the source, which is the whole source body.
C1_RoundTrip ==
    pc = "complete_multipart_upload" =>
        /\ pos = Len(source)
        /\ BodiesUpTo(MaxPartNumber(PartCalls)) = SubSeq(source, 1, pos)

\* C1 witness: a source of 3 * threshold bytes reached Complete, with a part
\* that is larger than the threshold and a trailing shorter one.
C1_Witness ==
    /\ pc = "complete_multipart_upload"
    /\ Len(source) = 3 * chunk_size
    /\ Len(PartCalls) = 3
    /\ Len(PartCalls[1].Body) > chunk_size
    /\ Len(PartCalls[3].Body) < chunk_size

\* C2: in every state the part numbers in the parts list are 1, 2, ..., K in
\* that order, K being the number of upload-part calls that succeeded.
C2_Sequencing ==
    /\ Len(parts) = Len(SucceededPartCalls)
    /\ \A i \in 1..Len(parts) : parts[i].PartNumber = i

\* C2 witness: three parts were recorded, with chunk sizes that made the first
\* part overshoot the threshold.
C2_Witness ==
    /\ Len(parts) = 3
    /\ Len(PartCalls[1].Body) > chunk_size

\* C6: no upload-part call carries an empty body; a zero-byte source makes no
\* upload-part call; a source that is an exact multiple of the threshold and
\* was cut into threshold-sized parts gets no trailing part.
C6_NoEmptyPart ==
    /\ \A i \in 1..Len(PartCalls) : Len(PartCalls[i].Body) > 0
    /\ Len(source) = 0 => PartCalls = <<>>
    /\ (/\ pc \in {"complete_multipart_upload", "url", "returned"}
        /\ \A i \in 1..Len(PartCalls) : Len(PartCalls[i].Body) = chunk_size)
       => Len(PartCalls) * chunk_size = Len(source)

\* C6 witness: a source of exactly two thresholds reached Complete with an
\* empty buffer after two threshold-sized parts.
C6_Witness ==
    /\ pc = "complete_multipart_upload"
    /\ Len(source) = 2 * chunk_size
    /\ buffer = <<>>
    /\ Len(PartCalls) = 2

\* C7: every uploaded part but the last has at least threshold bytes; a part
\* below the threshold is the one with the highest part number and is
\* uploaded after the source is exhausted.
C7_PartSizeFloor ==
    \A i \in 1..Len(PartCalls) :
        Len(PartCalls[i].Body) < chunk_size =>
            /\ i = Len(PartCalls)
            /\ PartCalls[i].PartNumber = MaxPartNumber(PartCalls)
            /\ pos = Len(source)

\* C7 witness: three parts were uploaded and the last one is short.
C7_Witness ==
    /\ Len(PartCalls) = 3
    /\ Len(PartCalls[3].Body) < chunk_size
    /\ Len(PartCalls[2].Body) >= chunk_size

\* every step of the transfer succeeded
AllStepsSucceeded ==
    /\ failure = NoFailure
    /\ \A i \in 1..Len(calls) : calls[i].ok
    /\ CountOp(calls, "create_multipart_upload") = 1
    /\ CountOp(calls, "complete_multipart_upload") = 1
    /\ pos = Len(source)
    /\ make_public \/ CountOp(calls, "generate_presigned_url") = 1

\* C9: a result is returned only when Open, every upload-part call, Complete
\* and the URL derivation all succeeded; every other finished execution
\* raised and carries no result.
C9_NoPartialSuccess ==
    /\ outcome.kind = "return" => pc = "returned" /\ AllStepsSucceeded
    /\ Terminated /\ ~AllStepsSucceeded =>
          /\ outcome.kind = "raise"
          /\ "result" \notin DOMAIN outcome

\* C9 witness: a private transfer of several parts returned its result.
C9_Witness ==
    /\ pc = "returned"
    /\ outcome.kind = "return"
    /\ ~make_public
    /\ Len(parts) >= 2

\* C3 as stated: a failed upload-part call is followed by exactly one Abort
\* and by no Complete.
C3_AbortOnPartFailure ==
    Terminated /\ failure.stage = "part-upload" =>
        /\ CountOp(calls, "abort_multipart_upload") = 1
        /\ CountOp(calls, "complete_multipart_upload") = 0

\* C4 as stated: when the function exits after Open succeeded, the session on
\* the store is Completed or Aborted.
C4_NoSessionOutlivesTransfer ==
    Terminated /\ CountOp(SelectSeq(calls, LAMBDA c : c.ok), "create_multipart_upload") = 1 =>
        session \in {"Completed", "Aborted"}

\* C5 as stated: when the source fetch fails, no open session is left on the
\* store: none was created, or the one created is aborted.
C5_SourceFailureLeavesNoSession ==
    failure.stage \in {"source-fetch", "source-transport"} =>
        /\ outcome.kind = "raise"
        /\ session \in {"Unopened", "Aborted"}

\* what the caller gets when the transfer failed and nothing was stored
TotalFailureOutcomes ==
    {except_Exception(e) : e \in StoreExceptions \cup TransportExceptions \cup {HTTPError}}

\* C8 as stated: when URL derivation fails after Complete, no Abort is issued,
\* the object stays stored, and what the caller gets differs from what a
\* total failure gives.
C8_StoredButUrlUnavailable ==
    failure.stage = "url-derivation" =>
        /\ CountOp(calls, "abort_multipart_upload") = 0
        /\ session = "Completed"
        /\ outcome \notin TotalFailureOutcomes

\* C10 as stated: when the upload of part n fails, the error the caller gets
\* names the stage part-upload and carries n and the underlying cause.
C10_PartUploadErrorCarriesSequence ==
    failure.stage = "part-upload" =>
        /\ outcome.kind = "raise"
        /\ outcome.exception \in StoreExceptions
        /\ "stage" \in DOMAIN outcome
        /\ "sequence" \in DOMAIN outcome
        /\ outcome.stage = "part-upload"
        /\ outcome.sequence = failure.sequence

\* C11: whatever step fails, the error the caller gets is the exception that
\* step raised; no Abort or other cleanup outcome takes its place.
C11_OriginalErrorSurfaces ==
    failure.stage # "none" =>
        /\ pc = "raised"
        /\ outcome.kind = "raise"
        /\ outcome.exception = failure.cause

\* C11 witness: Complete failed after two parts were uploaded and the caller
\* got the exception Complete raised.
C11_Witness ==
    /\ pc = "raised"
    /\ failure.stage = "session-complete"
    /\ Len(parts) = 2
    /\ outcome.exception = "ClientError"

\* C12 as stated: when the caller cancels after the session was opened, Abort
\* is invoked before control returns and the session is not left open.
C12_AbortOnCancel ==
    failure.stage = "cancelled" =>
        /\ CountOp(calls, "abort_multipart_upload") >= 1
        /\ session = "Aborted"

\* C13 as stated: in no terminal state of a transfer is the HTTP connection
\* to the source still open.
C13_ConnectionReleased ==
    Terminated => connection # "open"

\* the last call in the store client's log, if there is one
LastCallIs(op) == calls # <<>> /\ calls[Len(calls)].op = op

\* C14: a public transfer returns endpoint/bucket/key with the key
\* percent-encoded (decoding it gives the key back and no character that
\* needs an escape is left in it), a function of these three alone, and makes
\* no signed-URL request; a private transfer returns the URL that its
\* signed-URL request for the same (bucket, key), with an expiry of 3600 s,
\* returned.
C14_VisibilityBranching ==
    outcome.kind = "return" =>
        LET url == outcome.result.file_url
            prefix == endpoint_url \o <<"/">> \o bucket_name \o <<"/">>
            encoded == SubSeq(url, Len(prefix) + 1, Len(url))
        IN  IF make_public
            THEN /\ CountOp(calls, "generate_presigned_url") = 0
                 /\ Len(url) >= Len(prefix)
                 /\ SubSeq(url, 1, Len(prefix)) = prefix
                 /\ unquote(encoded) = filename
                 /\ \A i \in 1..Len(encoded) : encoded[i] # " "
                 /\ \A i \in 1..Len(encoded) : encoded[i] = "%" =>
                       /\ i + 2 <= Len(encoded)
                       /\ \E c \in Escapable : SubSeq(encoded, i, i + 2) = PercentCode(c)
            ELSE /\ CountOp(calls, "generate_presigned_url") = 1
                 /\ LastCallIs("generate_presigned_url")
                 /\ LET c == calls[Len(calls)]
                    IN  /\ c.ok
                        /\ c.Bucket = bucket_name
                        /\ c.Key = filename
                        /\ c.ExpiresIn = 3600
                        /\ url = c.Url
                        /\ url.Bucket = bucket_name
                        /\ url.Key = filename
                        /\ url.Expires = 3600

\* C14 witness: a public transfer returned the URL of a key that holds a
\* slash and a percent sign.
C14_Witness ==
    /\ pc = "returned"
    /\ make_public
    /\ filename = <<"d", "/", "5", "%", ".", "c">>
    /\ outcome.result.file_url =
          <<"http://minio:9000", "/", "bucket", "/",
            "d", "/", "5", "%", "2", "5", ".", "c">>

\* what follows the last "/" of str is name, and name holds no "/"
IsLastComponent(name, str) ==
    /\ Len(name) <= Len(str)
    /\ SubSeq(str, Len(str) - Len(name) + 1, Len(str)) = name
    /\ \A i \in 1..Len(name) : name[i] # "/"
    /\ Len(name) < Len(str) => str[Len(str) - Len(name)] = "/"

\* the last segment of a URL path, before any decoding
RECURSIVE LastSegment(_)
LastSegment(path) ==
    IF path = <<>> \/ path[Len(path)] = "/" THEN <<>>
    ELSE Append(LastSegment(SubSeq(path, 1, Len(path) - 1)), path[Len(path)])

SessionCalls ==
    SelectSeq(calls, LAMBDA c : c.op \in {"create_multipart_upload", "upload_part",
                                          "complete_multipart_upload"})

\* C16: the returned result names the bucket and the key that the Open call,
\* every upload-part call and the Complete call were made with, these calls
\* all carry the session identifier Open returned, and the public flag is the
\* caller's visibility flag.
C16_ResultEchoesParameters ==
    outcome.kind = "return" =>
        /\ SessionCalls # <<>>
        /\ SessionCalls[1].op = "create_multipart_upload"
        /\ SessionCalls[1].UploadId \in UploadIds
        /\ SessionCalls[Len(SessionCalls)].op = "complete_multipart_upload"
        /\ \A i \in 1..Len(SessionCalls) :
              /\ SessionCalls[i].Bucket = outcome.result.bucket
              /\ SessionCalls[i].Key = outcome.result.filename
              /\ SessionCalls[i].UploadId = SessionCalls[1].UploadId
        /\ outcome.result.public = make_public
        /\ SessionCalls[1].ACL = (IF outcome.result.public THEN "public-read" ELSE "private")

\* C16 witness: a transfer without a custom name returned after Open, three
\* upload-part calls and Complete.
C16_Witness ==
    /\ pc = "returned"
    /\ ~custom_filename.given
    /\ Len(SessionCalls) = 5
    /\ outcome.result.filename = <<"M", " ", "F", ".", "c">>

\* C17: the store calls follow Unopened -> Open -> Uploading* -> Completing
\* -> Completed: Open comes first and nothing follows a failed Open;
\* upload-part calls go one at a time in increasing part-number order;
\* Complete is called at most once, after the source is exhausted and all
\* bytes read have been uploaded; no upload-part call follows Complete; the
\* URL is derived only after Complete succeeded.
C17_SessionStateMachine ==
    /\ calls # <<>> => calls[1].op = "create_multipart_upload"
    /\ Len(calls) >= 2 => calls[1].ok /\ session # "Unopened"
    /\ CountOp(calls, "create_multipart_upload") <= 1
    /\ \A i \in 1..(Len(PartCalls) - 1) :
          /\ PartCalls[i].ok
          /\ PartCalls[i].PartNumber < PartCalls[i + 1].PartNumber
    /\ CountOp(calls, "complete_multipart_upload") <= 1
    /\ \A i \in 1..Len(calls) : calls[i].op = "complete_multipart_upload" =>
          /\ pos = Len(source)
          /\ ConcatBodies(SucceededPartCalls) = source
          /\ Len(SucceededPartCalls) = Len(PartCalls)
          /\ \A j \in (i + 1)..Len(calls) : calls[j].op = "generate_presigned_url"
    /\ \A i \in 1..Len(calls) : calls[i].op = "generate_presigned_url" =>
          /\ i > 1
          /\ calls[i - 1].op = "complete_multipart_upload"
          /\ calls[i - 1].ok
    /\ pc \in {"url", "returned"} =>
          /\ session = "Completed"
          /\ \E i \in 1..Len(calls) :
                calls[i].op = "complete_multipart_upload" /\ calls[i].ok
    /\ session = "Completed" =>
          \E i \in 1..Len(calls) :
              calls[i].op = "complete_multipart_upload" /\ calls[i].ok

\* C17 witness: Open, three upload-part calls, Complete and the signed-URL
\* request were made in this order.
C17_Witness ==
    /\ Len(calls) = 6
    /\ Len(PartCalls) = 3
    /\ calls[5].op = "complete_multipart_upload"
    /\ calls[6].op = "generate_presigned_url"

\* the Complete calls made so far
CompleteCalls == SelectSeq(calls, LAMBDA c : c.op = "complete_multipart_upload")

\* C18: the manifest given to Complete lists, for every part number i in
\* 1..K, one entry with the tag the store returned for the upload-part call
\* of part i, in this order, and nothing else.
C18_ManifestIsCompletedParts ==
    \A k \in 1..Len(CompleteCalls) :
        LET manifest == CompleteCalls[k].Parts
        IN  /\ Len(manifest) = Len(SucceededPartCalls)
            /\ Len(manifest) = Len(PartCalls)
            /\ \A i \in 1..Len(manifest) :
                  /\ manifest[i].PartNumber = i
                  /\ SucceededPartCalls[i].PartNumber = i
                  /\ manifest[i].ETag = SucceededPartCalls[i].ETag
                  /\ manifest[i].ETag \in ETags

\* C18 witness: Complete was given a manifest of three parts whose tags are
\* not all the same.
C18_Witness ==
    /\ Len(CompleteCalls) = 1
    /\ Len(CompleteCalls[1].Parts) = 3
    /\ CompleteCalls[1].Parts[1].ETag = "etag-b"
    /\ CompleteCalls[1].Parts[2].ETag = "etag-a"
    /\ CompleteCalls[1].Parts[3].ETag = "etag-b"

\* an upload-part call has just returned: every byte read so far is in the
\* body of an uploaded part and the next step is the read loop or Complete
JustFlushed ==
    /\ pc \in {"iter_content", "complete_multipart_upload"}
    /\ LastCallIs("upload_part")
    /\ Len(ConcatBodies(SucceededPartCalls)) = pos

C20_BoundedBuffer ==
    /\ Len(buffer) <= chunk_size - 1 + iter_chunk_size
    /\ \A i \in 1..Len(PartCalls) :
          Len(PartCalls[i].Body) <= chunk_size - 1 + iter_chunk_size

\* C20 witness: a source of three thresholds and more is being read, a part
\* of the largest possible size has been uploaded and the buffer is one chunk
\* short of full again.
C20_Witness ==
    /\ Len(source) > 3 * chunk_size
    /\ Len(PartCalls) >= 1
    /\ Len(PartCalls[1].Body) = chunk_size - 1 + iter_chunk_size
    /\ Len(buffer) = chunk_size - 1
    /\ pc = "iter_content"
====
